---- MODULE Spec2Model ----
(***************************************************************************)
(* Model of check_flights.py (Velocity Flight Tracker v3).                 *)
(*                                                                         *)
(* The pure computations of the tracker are modelled as operators          *)
(* translated from the source, and each is driven by its own               *)
(* specification whose actions draw the inputs from bounded sets:          *)
(*   SpecBooster      booster_cost, one step per loop iteration            *)
(*   SpecBoosterFair  the same, with the loop steps eventually taken       *)
(*   SpecLabel        price_percentile_label                               *)
(*   SpecSelect       search_cash_fares / search_velocity_seats            *)
(*   SpecDiff         build_diff                                           *)
(*   SpecSummarise    summarise_for_state                                  *)
(*   SpecMain         main, run after run, with the stored state file      *)
(* All specifications start in Init, the state before any call.            *)
(***************************************************************************)
EXTENDS Integers, Sequences, FiniteSets, TLC

VARIABLES
    \* booster_cost
    points_needed,    \* the argument of the running / last call
    remaining,        \* local `remaining`
    total_cost,       \* local `total_cost`
    total_bought,     \* local `total_bought`
    purchases,        \* history: the <<chunk, tier>> of every loop iteration
    booster_pc,       \* "idle" | "loop" | "done"
    booster_result,   \* None, or the returned (total_bought, total_cost)
    \* price_percentile_label
    price_pp,         \* argument price_pp
    metrics,          \* argument metrics: None or a five-point record
    label,            \* None before the call, then the returned label
    \* search_cash_fares / search_velocity_seats
    search_call,      \* None, or the function called and its cabin argument
    offers,           \* the provider's response (resp.json()["data"])
    results,          \* the returned list
    \* build_diff
    current,          \* argument current
    previous,         \* argument previous
    changes,          \* <<>> before the call, then the returned list
    \* summarise_for_state
    selected,         \* None, or the eight selections it is called with
    \* main, run after run
    main_pc,          \* the statement of main that is executed next
    run,              \* the number of the run
    store,            \* the content of the state file of the repository
    report,           \* None, or the changes of the report that was sent
    load_ok,          \* load_previous_state got the content of the file
    save_ok,          \* the last save_current_state wrote the file
    last_state        \* history: current_state of the preceding run

boosterVars == <<points_needed, remaining, total_cost, total_bought, purchases,
                 booster_pc, booster_result>>
labelVars   == <<price_pp, metrics, label>>
searchVars  == <<search_call, offers, results>>
diffVars    == <<current, previous, changes>>
summaryVars == <<selected>>
mainVars    == <<main_pc, run, store, report, load_ok, save_ok, last_state>>
vars        == <<boosterVars, labelVars, searchVars, diffVars, summaryVars,
                 mainVars>>

\* Python's None.  Every value that may be None is modelled as a record, so
\* that it can be compared with None: a number n that may be None is Num(n).
None == [none |-> TRUE]
Num(n) == [num |-> n]

Min2(a, b) == IF a <= b THEN a ELSE b
Max2(a, b) == IF a >= b THEN a ELSE b
Abs(x) == IF x < 0 THEN -x ELSE x

(***************************************************************************)
(* Configuration                                                           *)
(***************************************************************************)
PASSENGERS == 2
MAX_STOPS == 1
ALL_CARRIERS == <<"QR", "EK", "EY", "SQ">>
VELOCITY_PROGRAM == "velocity"

(***************************************************************************)
(* Points Booster price table                                              *)
(***************************************************************************)
BOOSTER_TABLE ==
    (1000 :> 36)     @@ (1500 :> 51)     @@ (2000 :> 68)     @@ (2500 :> 85)   @@
    (3000 :> 101)    @@ (3500 :> 118)    @@ (4000 :> 135)    @@ (4500 :> 152)  @@
    (5000 :> 168)    @@ (6000 :> 201)    @@ (7000 :> 233)    @@ (8000 :> 264)  @@
    (9000 :> 296)    @@ (10000 :> 325)   @@ (11000 :> 353)   @@ (12000 :> 375) @@
    (13000 :> 399)   @@ (14000 :> 427)   @@ (15000 :> 452)   @@ (16000 :> 469) @@
    (17000 :> 492)   @@ (18000 :> 512)   @@ (19000 :> 535)   @@ (20000 :> 555) @@
    (21000 :> 580)   @@ (22000 :> 605)   @@ (23000 :> 629)   @@ (24000 :> 653) @@
    (25000 :> 677)   @@ (26000 :> 698)   @@ (27000 :> 720)   @@ (28000 :> 743) @@
    (29000 :> 765)   @@ (30000 :> 787)   @@ (35000 :> 894)   @@ (40000 :> 994) @@
    (45000 :> 1086)  @@ (50000 :> 1172)  @@ (60000 :> 1404)  @@ (70000 :> 1638) @@
    (80000 :> 1872)  @@ (90000 :> 2106)  @@ (100000 :> 2340) @@
    (150000 :> 3510) @@ (200000 :> 4680) @@ (250000 :> 5850)

\* sorted(S) for a finite set of integers: ascending sequence of its elements
RECURSIVE sorted(_)
sorted(S) ==
    IF S = {} THEN <<>>
    ELSE LET m == CHOOSE x \in S : \A y \in S : x <= y
         IN  <<m>> \o sorted(S \ {m})

BOOSTER_TIERS == sorted(DOMAIN BOOSTER_TABLE)

\* chunk = min(remaining, 250_000)
\* mutant: a wrong single-purchase cap
ChunkCap200k(rem) == Min2(rem, 200000)
Chunk(rem) == Min2(rem, 250000)

\* tier = next((t for t in BOOSTER_TIERS if t >= chunk), 250_000)
\* mutant: round down to the largest tier <= chunk (smallest tier if none)
TierRoundDown(chunk) ==
    LET below == {i \in 1..Len(BOOSTER_TIERS) : BOOSTER_TIERS[i] <= chunk}
    IN  IF below = {} THEN BOOSTER_TIERS[1]
        ELSE BOOSTER_TIERS[CHOOSE i \in below : \A j \in below : j <= i]
\* mutant: strict comparison t > chunk
TierStrict(chunk) ==
    LET hit == {i \in 1..Len(BOOSTER_TIERS) : BOOSTER_TIERS[i] > chunk}
    IN  IF hit = {} THEN 250000
        ELSE BOOSTER_TIERS[CHOOSE i \in hit : \A j \in hit : i <= j]
Tier(chunk) ==
    LET hit == {i \in 1..Len(BOOSTER_TIERS) : BOOSTER_TIERS[i] >= chunk}
    IN  IF hit = {} THEN 250000
        ELSE BOOSTER_TIERS[CHOOSE i \in hit : \A j \in hit : i <= j]

\* booster_cost as a function: the loop run to completion
RECURSIVE BoosterLoop(_, _, _)
BoosterLoop(rem, bought, cost) ==
    IF rem > 0
    THEN LET chunk == Chunk(rem)
             tier  == Tier(chunk)
         IN  BoosterLoop(rem - chunk, bought + tier, cost + BOOSTER_TABLE[tier])
    ELSE [bought |-> bought, cost |-> cost]

booster_cost(n) == BoosterLoop(n, 0, 0)

(***************************************************************************)
(* Bounds of the inputs                                                    *)
(***************************************************************************)
\* points_needed ranges over 500*k - 1, 500*k, 500*k + 1 for k in -2..MaxPointUnits
MaxPointUnits == 1100

PointInputs == {500 * k + d : k \in (-2)..MaxPointUnits, d \in {-1, 0, 1}}

(***************************************************************************)
(* Initial state: nothing has been called                                  *)
(***************************************************************************)
BoosterInit ==
    /\ points_needed = 0
    /\ remaining = 0
    /\ total_cost = 0
    /\ total_bought = 0
    /\ purchases = <<>>
    /\ booster_pc = "idle"
    /\ booster_result = None

LabelInit ==
    /\ price_pp = 0
    /\ metrics = None
    /\ label = None

SearchInit ==
    /\ search_call = None
    /\ offers = <<>>
    /\ results = <<>>

DiffInit ==
    /\ current = None
    /\ previous = None
    /\ changes = <<>>

SummaryInit == selected = None

\* before the first run: the repository holds no state file
MainInit ==
    /\ main_pc = "load"
    /\ run = 1
    /\ store = None
    /\ report = None
    /\ load_ok = FALSE
    /\ save_ok = FALSE
    /\ last_state = None

Init ==
    /\ BoosterInit
    /\ LabelInit
    /\ SearchInit
    /\ DiffInit
    /\ SummaryInit
    /\ MainInit

(***************************************************************************)
(* booster_cost, step by step                                              *)
(***************************************************************************)
\* lines 76-78: entry
BoosterCall ==
    /\ booster_pc = "idle"
    /\ \E n \in PointInputs :
          /\ points_needed' = n
          /\ remaining' = n
    /\ total_cost' = 0
    /\ total_bought' = 0
    /\ purchases' = <<>>
    /\ booster_pc' = "loop"
    /\ UNCHANGED <<booster_result, labelVars, searchVars, diffVars, summaryVars, mainVars>>

\* lines 79-84: one iteration of the while loop
BoosterIter ==
    /\ booster_pc = "loop"
    /\ remaining > 0
    /\ LET chunk == Chunk(remaining)
           tier  == Tier(chunk)
       IN  /\ total_cost' = total_cost + BOOSTER_TABLE[tier]
           /\ total_bought' = total_bought + tier
           /\ remaining' = remaining - chunk
           /\ purchases' = Append(purchases, <<chunk, tier>>)
    /\ UNCHANGED <<points_needed, booster_pc, booster_result,
                   labelVars, searchVars, diffVars, summaryVars, mainVars>>

\* line 85: the loop condition fails and the totals are returned
BoosterReturn ==
    /\ booster_pc = "loop"
    /\ ~(remaining > 0)
    /\ booster_result' = [bought |-> total_bought, cost |-> total_cost]
    /\ booster_pc' = "done"
    /\ UNCHANGED <<points_needed, remaining, total_cost, total_bought, purchases,
                   labelVars, searchVars, diffVars, summaryVars, mainVars>>

NextBooster ==
    \/ BoosterCall
    \/ BoosterIter
    \/ BoosterReturn

SpecBooster == Init /\ [][NextBooster]_vars

(***************************************************************************)
(* Properties of booster_cost                                              *)
(***************************************************************************)
BoosterDone == booster_pc = "done"

\* t is the smallest tier of the table that is >= c
SmallestTierAtLeast(t, c) ==
    /\ t \in DOMAIN BOOSTER_TABLE
    /\ t >= c
    /\ \A u \in DOMAIN BOOSTER_TABLE : u >= c => t <= u

RECURSIVE SumChunks(_)
SumChunks(ps) == IF ps = <<>> THEN 0 ELSE Head(ps)[1] + SumChunks(Tail(ps))

\* C2: for every non-negative points_needed the call returns
\* (points_purchased, purchase_price) with points_purchased >= points_needed
\* and purchase_price >= 0, and booster_cost(0) = (0, 0).
C2_BoughtCoversNeed ==
    (BoosterDone /\ points_needed >= 0) =>
        /\ booster_result.bought >= points_needed
        /\ booster_result.cost >= 0
        /\ (points_needed = 0 => booster_result = [bought |-> 0, cost |-> 0])

\* a non-negative requirement that is not a tier was rounded up
C2_Witness ==
    /\ BoosterDone
    /\ points_needed > 0
    /\ booster_result.bought > points_needed
    /\ booster_result.cost > 0

\* C3: a points_needed that is exactly a tier of the table returns that tier
\* as points purchased and that tier's listed price (no rounding up).
C3_ExactTier ==
    (BoosterDone /\ points_needed \in DOMAIN BOOSTER_TABLE) =>
        booster_result = [bought |-> points_needed, cost |-> BOOSTER_TABLE[points_needed]]

C3_Witness ==
    /\ BoosterDone
    /\ points_needed = 50000
    /\ booster_result = [bought |-> 50000, cost |-> 1172]

\* C4: above the 250,000 cap the requirement is split into chunks of at most
\* 250,000, each chunk is priced at the smallest tier >= the chunk, the chunk
\* (not the tier) is subtracted from the remaining requirement, and the call
\* makes ceil(points_needed / 250,000) purchases; for 300,000 these are two
\* purchases costing price(250,000) + price(50,000).
C4_ChunkedAboveCap ==
    (booster_pc \in {"loop", "done"} /\ points_needed > 250000) =>
        /\ \A i \in 1..Len(purchases) :
              /\ purchases[i][1] > 0
              /\ purchases[i][1] <= 250000
              /\ SmallestTierAtLeast(purchases[i][2], purchases[i][1])
        /\ remaining = points_needed - SumChunks(purchases)
        /\ BoosterDone =>
              /\ remaining = 0
              /\ Len(purchases) = (points_needed + 249999) \div 250000
              /\ \A i \in 1..(Len(purchases) - 1) : purchases[i][1] = 250000
              /\ (points_needed = 300000 =>
                    /\ Len(purchases) = 2
                    /\ total_bought = 250000 + 50000
                    /\ booster_result.cost = BOOSTER_TABLE[250000] + BOOSTER_TABLE[50000])

C4_Witness ==
    /\ BoosterDone
    /\ points_needed = 300000
    /\ purchases = << <<250000, 250000>>, <<50000, 50000>> >>
    /\ booster_result = [bought |-> 300000, cost |-> 7022]

\* C5 (as claimed): for points_needed = 135,000 the purchase price is the
\* listed price of a 135,000 tier: exact match, no rounding up.
C5_Exact135k ==
    (BoosterDone /\ points_needed = 135000) =>
        /\ 135000 \in DOMAIN BOOSTER_TABLE
        /\ booster_result.bought = 135000
        /\ booster_result.cost = BOOSTER_TABLE[135000]

\* C5 (amended): the table has no 135,000 tier; for points_needed = 135,000
\* the call rounds up to the 150,000 tier and returns (150,000, 3,510).
C5_RoundsUpTo150k ==
    (BoosterDone /\ points_needed = 135000) =>
        /\ 135000 \notin DOMAIN BOOSTER_TABLE
        /\ SmallestTierAtLeast(150000, 135000)
        /\ booster_result = [bought |-> 150000, cost |-> BOOSTER_TABLE[150000]]
        /\ booster_result.cost = 3510

C5_Witness ==
    /\ BoosterDone
    /\ points_needed = 135000
    /\ Len(purchases) = 1

\* C6 (as claimed): a negative points_needed makes the call fail with an
\* InvalidInput condition; it is never coerced to a default result.
\* the outcome of a call that fails with an InvalidInput condition
InvalidInput == [raised |-> "InvalidInput"]

C6_NegativeIsRejected ==
    (BoosterDone /\ points_needed < 0) => booster_result = InvalidInput

\* what the code does with a negative requirement: returns (0, 0)
C6_NegativeReturnsZero ==
    (BoosterDone /\ points_needed < 0) =>
        (booster_result = [bought |-> 0, cost |-> 0] /\ purchases = <<>>)

(***************************************************************************)
(* price_percentile_label                                                  *)
(*                                                                         *)
(* metrics is None or the dict get_price_analysis builds, which always     *)
(* has the five keys (a key the provider omits is read as 0).  Prices are  *)
(* whole dollars.  The returned string                                     *)
(*     f"{pct} percentile · {direction} {emoji}"                           *)
(* is modelled by its parts: pct as its mark ("~" or ">") and number,      *)
(* direction as the rounded amount and "above"/"below", and the emoji by   *)
(* its colour; the marker returned without a distribution is the record    *)
(* UNAVAILABLE.                                                            *)
(***************************************************************************)
UNAVAILABLE == [text |-> "_(price data unavailable)_"]

\* not metrics or not metrics.get("median")
\* mutant: only the absent distribution is tested, a zero median is not
NoPriceDataAbsentOnly(m) == m = None
NoPriceData(m) == m = None \/ m.median = 0

\* int(base + ratio * 25) with ratio = (price - lo) / max(hi - lo, 1)
\* mutant: the band's base percentile is left out
InterpolateNoBase(base, price, lo, hi) ==
    ((price - lo) * 25) \div Max2(hi - lo, 1)
Interpolate(base, price, lo, hi) ==
    base + ((price - lo) * 25) \div Max2(hi - lo, 1)

\* lines 389-408: pct, emoji
PctEmoji(price, m) ==
    IF price <= m.min THEN
        [mark |-> "~", p |-> 10, emoji |-> "green"]
    ELSE IF price <= m.low THEN
        [mark |-> "~", p |-> 25, emoji |-> "green"]
    ELSE IF price <= m.median THEN
        [mark |-> "~", p |-> Interpolate(25, price, m.low, m.median), emoji |-> "green"]
    ELSE IF price <= m.high THEN
        [mark |-> "~", p |-> Interpolate(50, price, m.median, m.high), emoji |-> "yellow"]
    ELSE IF price <= m.max THEN
        [mark |-> "~", p |-> Interpolate(75, price, m.high, m.max), emoji |-> "red"]
    ELSE
        [mark |-> ">", p |-> 95, emoji |-> "red"]

\* lines 410-411: vs_median, direction
Direction(price, m) ==
    LET vs_median == price - m.median
    IN  [amount |-> Abs(vs_median),
         side   |-> IF vs_median > 0 THEN "above" ELSE "below"]

price_percentile_label(price, m) ==
    IF NoPriceData(m) THEN UNAVAILABLE
    ELSE LET pe == PctEmoji(price, m)
         IN  [mark |-> pe.mark, p |-> pe.p,
              direction |-> Direction(price, m), emoji |-> pe.emoji]

\* Bound of the generic distributions: each of the five points is in 0..MaxMetric
MaxMetric == 4

\* the distribution of the specification's end-to-end scenario
ExampleDistribution ==
    [min |-> 2000, low |-> 2400, median |-> 2700, high |-> 3200, max |-> 4000]

MetricInputs ==
    {None, ExampleDistribution} \cup
    [min : 0..MaxMetric, low : 0..MaxMetric, median : 0..MaxMetric,
     high : 0..MaxMetric, max : 0..MaxMetric]

PriceInputs ==
    (0..(MaxMetric + 1)) \cup {2000, 2400, 2700, 2800, 3200, 3999, 4000, 4001}

\* format_price_insight: a first label
LabelCall ==
    /\ label = None
    /\ \E price \in PriceInputs, m \in MetricInputs :
          /\ price_pp' = price
          /\ metrics' = m
          /\ label' = price_percentile_label(price, m)
    /\ UNCHANGED <<boosterVars, searchVars, diffVars, summaryVars, mainVars>>

\* format_price_insight on a later run: another price, the same distribution
LabelAgain ==
    /\ label # None
    /\ \E price \in PriceInputs :
          /\ price_pp' = price
          /\ label' = price_percentile_label(price, metrics)
    /\ UNCHANGED <<metrics, boosterVars, searchVars, diffVars, summaryVars, mainVars>>

NextLabel ==
    \/ LabelCall
    \/ LabelAgain

SpecLabel == Init /\ [][NextLabel]_vars

(***************************************************************************)
(* Properties of price_percentile_label                                    *)
(***************************************************************************)
Labelled == label # None
Placed == label \notin {None, UNAVAILABLE}

ValidDistribution(m) ==
    /\ m # None
    /\ m.min <= m.low
    /\ m.low <= m.median
    /\ m.median <= m.high
    /\ m.high <= m.max

\* C7: when the distribution is absent or has no median, the label is the
\* fixed "price data unavailable" marker for every price: no percentile.
C7_UnavailableMarker ==
    (Labelled /\ (metrics = None \/ metrics.median = 0)) => label = UNAVAILABLE

\* a present distribution that has no median, and a positive price
C7_Witness ==
    /\ Labelled
    /\ metrics # None
    /\ metrics.median = 0
    /\ metrics.max > 0
    /\ price_pp > 0
    /\ label = UNAVAILABLE

\* C8 (as claimed): for a fixed valid distribution the reported percentile
\* never decreases when the price increases, prices at and above max included.
C8_PercentileMonotone ==
    [][(/\ Placed
        /\ ValidDistribution(metrics)
        /\ price_pp' >= price_pp
        /\ label' \notin {None, UNAVAILABLE})
       => label'.p >= label.p]_vars

\* C9 (as claimed): each band, taken on its own, decides the label.
C9_BandsAsClaimed ==
    Placed =>
        /\ price_pp <= metrics.min =>
              (label.mark = "~" /\ label.p = 10 /\ label.emoji = "green")
        /\ (metrics.min < price_pp /\ price_pp <= metrics.low) =>
              (label.mark = "~" /\ label.p = 25 /\ label.emoji = "green")
        /\ (metrics.low < price_pp /\ price_pp <= metrics.median) =>
              (label.p \in 25..50 /\ label.emoji = "green")
        /\ (metrics.median < price_pp /\ price_pp <= metrics.high) =>
              (label.p \in 50..75 /\ label.emoji = "yellow")
        /\ (metrics.high < price_pp /\ price_pp <= metrics.max) =>
              (label.p \in 75..100 /\ label.emoji = "red")
        /\ price_pp > metrics.max =>
              (label.mark = ">" /\ label.p = 95 /\ label.emoji = "red")
        /\ (metrics = ExampleDistribution /\ price_pp = 2800) =>
              /\ label.p \in 50..75
              /\ label.emoji = "yellow"
              /\ label.direction = [amount |-> 100, side |-> "above"]

\* C9 (amended): the bands are tried in the listed order and the first band
\* whose upper limit is >= the price decides; for an ordered distribution
\* (min <= low <= median <= high <= max) these are the bands as claimed.
C9_BandsFirstMatch ==
    Placed =>
        LET p    == price_pp
            m    == metrics
            gt1  == p > m.min
            gt2  == gt1 /\ p > m.low
            gt3  == gt2 /\ p > m.median
            gt4  == gt3 /\ p > m.high
            gt5  == gt4 /\ p > m.max
        IN  /\ p <= m.min =>
                  (label.mark = "~" /\ label.p = 10 /\ label.emoji = "green")
            /\ (gt1 /\ p <= m.low) =>
                  (label.mark = "~" /\ label.p = 25 /\ label.emoji = "green")
            /\ (gt2 /\ p <= m.median) =>
                  (label.mark = "~" /\ label.p \in 25..50 /\ label.emoji = "green")
            /\ (gt3 /\ p <= m.high) =>
                  (label.mark = "~" /\ label.p \in 50..75 /\ label.emoji = "yellow")
            /\ (gt4 /\ p <= m.max) =>
                  (label.mark = "~" /\ label.p \in 75..100 /\ label.emoji = "red")
            /\ gt5 =>
                  (label.mark = ">" /\ label.p = 95 /\ label.emoji = "red")
            /\ ValidDistribution(m) => C9_BandsAsClaimed
            /\ (m = ExampleDistribution /\ p = 2800) =>
                  /\ label.p = 55
                  /\ label.emoji = "yellow"
                  /\ label.direction = [amount |-> 100, side |-> "above"]

\* the specification's scenario: $2,800 against the example distribution
C9_Witness ==
    /\ Placed
    /\ metrics = ExampleDistribution
    /\ price_pp = 2800
    /\ label.p = 55

(***************************************************************************)
(* search_cash_fares / search_velocity_seats                               *)
(*                                                                         *)
(* A cash offer of the provider is modelled by the operating carrier code  *)
(* of each segment of its first itinerary (<<>>: the offer has no          *)
(* itinerary) and its grand total in whole dollars.  A reward item is      *)
(* modelled by its Source, by the availability, mileage cost and remaining *)
(* seats of the requested cabin, and by its list of carrier codes.  The    *)
(* records built keep the fields that selection and the snapshot read;     *)
(* the fields that only the report prints (flight numbers, times, via,     *)
(* taxes, labels) are left out.                                            *)
(***************************************************************************)
SetOf(seq) == {seq[i] : i \in 1..Len(seq)}

\* sorted(carriers_on_flight): the carrier codes of the model in the order of
\* Python's string comparison
CodeOrder == <<"EK", "EY", "QR", "SQ", "XX">>
SortedCodes(S) == SelectSeq(CodeOrder, LAMBDA c : c \in S)

\* cabin.lower()
Lower(cabin) ==
    CASE cabin = "BUSINESS" -> "business"
      [] cabin = "ECONOMY"  -> "economy"
      [] OTHER              -> cabin

\* lines 218-232: the offers that are not skipped
CashKept(offer) ==
    /\ offer.segments # <<>>
    /\ ~(Len(offer.segments) > MAX_STOPS + 1)
    /\ SetOf(offer.segments) \subseteq SetOf(ALL_CARRIERS)

\* lines 234-261: the record of one offer; price_pp = price_total / PASSENGERS
\* is kept as an exact fraction
CashRecord(offer, cabin) ==
    [cabin         |-> Lower(cabin),
     carrier_codes |-> SortedCodes(SetOf(offer.segments)),
     is_qatar      |-> "QR" \in SetOf(offer.segments),
     price_total   |-> offer.grandTotal,
     price_pp      |-> [numer |-> offer.grandTotal, denom |-> PASSENGERS]]

\* lines 458-471: the items that are not skipped
RewardKept(item) ==
    /\ item.Source = VELOCITY_PROGRAM
    /\ item.Available
    /\ \E i \in 1..Len(item.Carriers) : item.Carriers[i] \in SetOf(ALL_CARRIERS)

\* lines 473-493: the record of one item
RewardRecord(item, cabin) ==
    LET total_points == item.MileageCost * PASSENGERS
        bc           == booster_cost(total_points)
    IN  [cabin         |-> cabin,
         carrier_codes |-> item.Carriers,
         is_qatar      |-> \E i \in 1..Len(item.Carriers) : item.Carriers[i] = "QR",
         seats_avail   |-> item.RemainingSeats,
         points_pp     |-> item.MileageCost,
         total_points  |-> total_points,
         pts_bought    |-> bc.bought,
         booster_aud   |-> bc.cost]

IsQatar(record) == record.is_qatar
IsOther(record) == ~record.is_qatar

\* list.sort(key=lambda x: x[key]) is a stable sort, modelled as the insertion
\* of each element, in input order, after the sorted elements whose key is
\* not greater
\* mutant: descending order
RECURSIVE InsertDescending(_, _, _)
InsertDescending(s, x, key) ==
    IF s = <<>> THEN <<x>>
    ELSE IF x[key] > Head(s)[key] THEN <<x>> \o s
    ELSE <<Head(s)>> \o InsertDescending(Tail(s), x, key)
\* mutant: an unstable sort, an element is put before the elements of equal key
RECURSIVE InsertBeforeEqual(_, _, _)
InsertBeforeEqual(s, x, key) ==
    IF s = <<>> THEN <<x>>
    ELSE IF x[key] <= Head(s)[key] THEN <<x>> \o s
    ELSE <<Head(s)>> \o InsertBeforeEqual(Tail(s), x, key)
RECURSIVE Insert(_, _, _)
Insert(s, x, key) ==
    IF s = <<>> THEN <<x>>
    ELSE IF x[key] < Head(s)[key] THEN <<x>> \o s
    ELSE <<Head(s)>> \o Insert(Tail(s), x, key)

RECURSIVE Sort(_, _)
Sort(s, key) ==
    IF s = <<>> THEN <<>>
    ELSE Insert(Sort(SubSeq(s, 1, Len(s) - 1), key), s[Len(s)], key)

\* lines 270-276 and 502-507: Qatar cheapest + one cheapest non-Qatar
\* mutant: the two entries are appended in the other order
TopOfEachOtherFirst(qatar_results, other_results) ==
    (IF other_results # <<>> THEN <<other_results[1]>> ELSE <<>>) \o
    (IF qatar_results # <<>> THEN <<qatar_results[1]>> ELSE <<>>)
TopOfEach(qatar_results, other_results) ==
    (IF qatar_results # <<>> THEN <<qatar_results[1]>> ELSE <<>>) \o
    (IF other_results # <<>> THEN <<other_results[1]>> ELSE <<>>)

\* lines 214-217, 262-265: the records of the kept offers, in input order
CashRecords(data, cabin) ==
    LET kept == SelectSeq(data, CashKept)
    IN  [i \in 1..Len(kept) |-> CashRecord(kept[i], cabin)]

\* lines 454-457, 494-497
RewardRecords(data, cabin) ==
    LET kept == SelectSeq(data, RewardKept)
    IN  [i \in 1..Len(kept) |-> RewardRecord(kept[i], cabin)]

\* lines 214-276, given the provider's response
search_cash_fares(data, cabin) ==
    LET records       == CashRecords(data, cabin)
        qatar_results == Sort(SelectSeq(records, IsQatar), "price_total")
        other_results == Sort(SelectSeq(records, IsOther), "price_total")
    IN  TopOfEach(qatar_results, other_results)

\* lines 454-507, given the provider's response
search_velocity_seats(data, cabin) ==
    LET records       == RewardRecords(data, cabin)
        qatar_results == Sort(SelectSeq(records, IsQatar), "points_pp")
        other_results == Sort(SelectSeq(records, IsOther), "points_pp")
    IN  TopOfEach(qatar_results, other_results)

\* Bounds of the pools: at most MaxPool offers, prices of MaxPrice levels
MaxPool == 3
MaxPrice == 2

\* segments of the modelled cash offers: Qatar, others, mixed, and offers the
\* filter drops (no itinerary, a carrier that is not allowed, two stops)
CashSegments ==
    { <<>>, <<"QR">>, <<"EK">>, <<"SQ">>, <<"QR", "EK">>,
      <<"EK", "XX">>, <<"QR", "EK", "SQ">> }

CashOffers ==
    {[segments |-> sg, grandTotal |-> 2801 * k] :
        sg \in CashSegments, k \in 1..MaxPrice}

\* carriers and remaining seats of the modelled reward items
RewardCarriers ==
    { [Carriers |-> <<"QR">>, RemainingSeats |-> 2],
      [Carriers |-> <<"EK">>, RemainingSeats |-> 4],
      [Carriers |-> <<"SQ", "QR">>, RemainingSeats |-> 0],
      [Carriers |-> <<"EY", "XX">>, RemainingSeats |-> 1],
      [Carriers |-> <<"XX">>, RemainingSeats |-> 9] }

RewardItems ==
    {[Source |-> VELOCITY_PROGRAM, Available |-> TRUE, MileageCost |-> 45000 * k,
      Carriers |-> c.Carriers, RemainingSeats |-> c.RemainingSeats] :
        c \in RewardCarriers, k \in 1..MaxPrice}
    \cup
    {[Source |-> "qantas", Available |-> TRUE, MileageCost |-> 45000,
      Carriers |-> <<"QR">>, RemainingSeats |-> 2],
     [Source |-> VELOCITY_PROGRAM, Available |-> FALSE, MileageCost |-> 45000,
      Carriers |-> <<"QR">>, RemainingSeats |-> 0]}

Pools(S) == UNION {[1..n -> S] : n \in 0..MaxPool}

\* search_cash_fares with a response of the provider
SearchCashFares ==
    /\ search_call = None
    /\ \E cabin \in {"BUSINESS", "ECONOMY"}, data \in Pools(CashOffers) :
          /\ search_call' = [fn |-> "search_cash_fares", cabin |-> cabin]
          /\ offers' = data
          /\ results' = search_cash_fares(data, cabin)
    /\ UNCHANGED <<boosterVars, labelVars, diffVars, summaryVars, mainVars>>

\* search_velocity_seats with a response of the provider
SearchVelocitySeats ==
    /\ search_call = None
    /\ \E cabin \in {"business", "economy"}, data \in Pools(RewardItems) :
          /\ search_call' = [fn |-> "search_velocity_seats", cabin |-> cabin]
          /\ offers' = data
          /\ results' = search_velocity_seats(data, cabin)
    /\ UNCHANGED <<boosterVars, labelVars, diffVars, summaryVars, mainVars>>

\* lines 184-190, 210-212, 422-423, 450-452: no credentials, or the request
\* fails: the function returns [] without a response
SearchFails ==
    /\ search_call = None
    /\ \E call \in {[fn |-> "search_cash_fares", cabin |-> "BUSINESS"],
                    [fn |-> "search_cash_fares", cabin |-> "ECONOMY"],
                    [fn |-> "search_velocity_seats", cabin |-> "business"],
                    [fn |-> "search_velocity_seats", cabin |-> "economy"]} :
          search_call' = call
    /\ offers' = <<>>
    /\ results' = <<>>
    /\ UNCHANGED <<boosterVars, labelVars, diffVars, summaryVars, mainVars>>

NextSelect ==
    \/ SearchCashFares
    \/ SearchVelocitySeats
    \/ SearchFails

SpecSelect == Init /\ [][NextSelect]_vars

(***************************************************************************)
(* Properties of the selection                                             *)
(***************************************************************************)
Searched == search_call # None

\* the candidate pool of the call: the records of the offers that pass the
\* filter, and the key they are ranked by
Candidates ==
    IF search_call.fn = "search_cash_fares"
    THEN CashRecords(offers, search_call.cabin)
    ELSE RewardRecords(offers, search_call.cabin)

RankKey(record) ==
    IF search_call.fn = "search_cash_fares"
    THEN record.price_total
    ELSE record.points_pp

\* C1: the selection returns at most two offers: first the cheapest candidate
\* that includes QR (if any), then the cheapest candidate that does not
\* include QR (if any); an empty pool gives an empty result and a pool of
\* non-QR offers gives exactly one offer, the cheapest.  The key is the
\* total price for cash offers and points per person for reward offers.
C1_QatarThenCheapestOther ==
    Searched =>
        LET pool  == SetOf(Candidates)
            qatar == {c \in pool : "QR" \in SetOf(c.carrier_codes)}
            other == {c \in pool : "QR" \notin SetOf(c.carrier_codes)}
            nq    == IF qatar = {} THEN 0 ELSE 1
            no    == IF other = {} THEN 0 ELSE 1
        IN  /\ Len(results) = nq + no
            /\ Len(results) <= 2
            /\ pool = {} => results = <<>>
            /\ qatar # {} =>
                  /\ results[1] \in qatar
                  /\ \A c \in qatar : RankKey(results[1]) <= RankKey(c)
            /\ other # {} =>
                  /\ results[nq + 1] \in other
                  /\ \A c \in other : RankKey(results[nq + 1]) <= RankKey(c)
            /\ (qatar = {} /\ other # {}) =>
                  /\ Len(results) = 1
                  /\ ~results[1].is_qatar

\* a reward pool of three candidates in which the dearer of two QR offers
\* comes first and a non-QR offer is present
C1_Witness ==
    /\ Searched
    /\ search_call.fn = "search_velocity_seats"
    /\ Len(Candidates) = 3
    /\ Len(results) = 2
    /\ \E i, j \in 1..Len(Candidates) :
          /\ i < j
          /\ Candidates[i].is_qatar
          /\ Candidates[j].is_qatar
          /\ RankKey(Candidates[j]) < RankKey(Candidates[i])
          /\ results[1] = Candidates[j]
    /\ ~results[2].is_qatar

(***************************************************************************)
(* build_diff                                                              *)
(*                                                                         *)
(* A snapshot is the dict of summarise_for_state: every tracked key maps   *)
(* to None or to Num(n).  The previous state is such a dict, or the empty  *)
(* dict load_previous_state returns when nothing is stored (NoState).      *)
(* The strings of the result are modelled by their parts: a changed-value  *)
(* entry f"   {label}: {prev_str} -> {val_str} ({sign}{abs(diff):,}        *)
(* {unit}) {emoji}" is the record of label, prev_str, val_str, sign,       *)
(* delta, unit and emoji, and a rendered value is its currency prefix      *)
(* ("AUD $" or "") and its number.  Non-ASCII characters of the texts are  *)
(* written in ASCII.                                                       *)
(***************************************************************************)
\* lines 539-547: the keys of labels in the order of the dict
MetricKeys ==
    << "biz_cash_pp", "biz_pts_pp_through", "biz_pts_pp_doh_syd",
       "eco_cash_pp", "eco_pts_pp", "biz_seats_through", "biz_seats_doh_syd" >>

labels ==
    [biz_cash_pp        |-> "Business cash (pp)",
     biz_pts_pp_through |-> "Business points through (pp)",
     biz_pts_pp_doh_syd |-> "DOH->SYD points (pp)",
     eco_cash_pp        |-> "Economy cash (pp)",
     eco_pts_pp         |-> "Economy points (pp)",
     biz_seats_through  |-> "Business seats (through)",
     biz_seats_doh_syd  |-> "Business seats (DOH->SYD)"]

\* "cash" in key, "pts" in key, "seats" in key
HasCash(key)  == key \in {"biz_cash_pp", "eco_cash_pp"}
HasPts(key)   == key \in {"biz_pts_pp_through", "biz_pts_pp_doh_syd", "eco_pts_pp"}
HasSeats(key) == key \in {"biz_seats_through", "biz_seats_doh_syd"}

\* the empty dict
NoState == None

\* d.get(key)
Get(d, key) == IF key \in DOMAIN d THEN d[key] ELSE None

FIRST_RUN  == [text |-> "_(first run - no previous data)_"]
NO_CHANGES == [text |-> "   No changes from yesterday"]

\* line 536: not previous
\* mutant: the test for a first run is missing
NotPreviousNever(prev) == FALSE
NotPrevious(prev) == prev = NoState

\* line 557: 'AUD $' + f'{cur:,}' if is_price else str(cur)
NowAvailable(key, cur) ==
    LET is_price == HasCash(key) \/ HasPts(key)
    IN  [label |-> labels[key],
         kind  |-> "now available",
         value |-> [prefix |-> IF is_price THEN "AUD $" ELSE "", number |-> cur.num],
         emoji |-> "new"]

\* line 559
NoLongerAvailable(key) ==
    [label |-> labels[key], kind |-> "no longer available", emoji |-> "cross"]

\* lines 561-572
\* mutant: a seat count is classified like a price (an increase is red)
ChangedSeatsLikePrice(key, cur, prev) ==
    LET diff == cur.num - prev.num
        unit == IF HasPts(key) THEN "pts"
                ELSE IF HasSeats(key) THEN "seats" ELSE "AUD $"
    IN  [label |-> labels[key], kind |-> "changed",
         prev_str |-> [prefix |-> IF HasCash(key) THEN "AUD $" ELSE "", number |-> prev.num],
         val_str  |-> [prefix |-> IF HasCash(key) THEN "AUD $" ELSE "", number |-> cur.num],
         sign |-> IF diff > 0 THEN "+" ELSE "", delta |-> Abs(diff), unit |-> unit,
         emoji |-> IF diff > 0 THEN "red" ELSE "green"]
Changed(key, cur, prev) ==
    LET is_price == HasCash(key) \/ HasPts(key)
        diff     == cur.num - prev.num
        unit     == IF HasPts(key) THEN "pts"
                    ELSE IF HasSeats(key) THEN "seats" ELSE "AUD $"
        sign     == IF diff > 0 THEN "+" ELSE ""
        emoji    == IF diff > 0 /\ is_price THEN "red"
                    ELSE IF diff < 0 /\ is_price THEN "green"
                    ELSE IF diff > 0 /\ HasSeats(key) THEN "green"
                    ELSE "red"
        val_str  == [prefix |-> IF HasCash(key) THEN "AUD $" ELSE "", number |-> cur.num]
        prev_str == [prefix |-> IF HasCash(key) THEN "AUD $" ELSE "", number |-> prev.num]
    IN  [label |-> labels[key], kind |-> "changed",
         prev_str |-> prev_str, val_str |-> val_str,
         sign |-> sign, delta |-> Abs(diff), unit |-> unit, emoji |-> emoji]

\* lines 550-572: what one key appends to changes
EntriesOf(key, cur_state, prev_state) ==
    LET cur  == Get(cur_state, key)
        prev == Get(prev_state, key)
    IN  IF cur = None /\ prev = None THEN <<>>
        ELSE IF cur # prev THEN
            IF prev = None THEN <<NowAvailable(key, cur)>>
            ELSE IF cur = None THEN <<NoLongerAvailable(key)>>
            ELSE <<Changed(key, cur, prev)>>
        ELSE <<>>

\* lines 548-549: the loop over labels.items(), from the i-th key on
RECURSIVE ChangesFrom(_, _, _)
ChangesFrom(i, cur_state, prev_state) ==
    IF i > Len(MetricKeys) THEN <<>>
    ELSE EntriesOf(MetricKeys[i], cur_state, prev_state)
         \o ChangesFrom(i + 1, cur_state, prev_state)

\* mutant: as the docstring says, [] when nothing changed
build_diffEmptyWhenUnchanged(cur_state, prev_state) ==
    IF NotPrevious(prev_state) THEN <<FIRST_RUN>>
    ELSE ChangesFrom(1, cur_state, prev_state)
build_diff(cur_state, prev_state) ==
    IF NotPrevious(prev_state) THEN <<FIRST_RUN>>
    ELSE LET found == ChangesFrom(1, cur_state, prev_state)
         IN  IF found # <<>> THEN found ELSE <<NO_CHANGES>>

\* The values of the modelled snapshots
CashLevels  == {2800, 3100}
PointLevels == {135000, 150000}
SeatLevels  == {0, 2}

ValuesOf(key) ==
    IF HasCash(key) THEN {None} \cup {Num(n) : n \in CashLevels}
    ELSE IF HasPts(key) THEN {None} \cup {Num(n) : n \in PointLevels}
    ELSE {Num(n) : n \in SeatLevels}

Snapshots ==
    [biz_cash_pp        : ValuesOf("biz_cash_pp"),
     biz_pts_pp_through : ValuesOf("biz_pts_pp_through"),
     biz_pts_pp_doh_syd : ValuesOf("biz_pts_pp_doh_syd"),
     eco_cash_pp        : ValuesOf("eco_cash_pp"),
     eco_pts_pp         : ValuesOf("eco_pts_pp"),
     biz_seats_through  : ValuesOf("biz_seats_through"),
     biz_seats_doh_syd  : ValuesOf("biz_seats_doh_syd")]

\* Bound: a stored previous snapshot differs from the current one in at most
\* MaxChanged metrics
MaxChanged == 2

Differing(a, b) == {key \in SetOf(MetricKeys) : a[key] # b[key]}

\* build_diff on a first run: nothing is stored
BuildDiffFirstRun ==
    /\ changes = <<>>
    /\ \E cur \in Snapshots :
          /\ current' = cur
          /\ previous' = NoState
          /\ changes' = build_diff(cur, NoState)
    /\ UNCHANGED <<boosterVars, labelVars, searchVars, summaryVars, mainVars>>

\* build_diff against the snapshot of the preceding run
BuildDiff ==
    /\ changes = <<>>
    /\ \E cur \in Snapshots :
          \E prev \in {p \in Snapshots : Cardinality(Differing(cur, p)) <= MaxChanged} :
              /\ current' = cur
              /\ previous' = prev
              /\ changes' = build_diff(cur, prev)
    /\ UNCHANGED <<boosterVars, labelVars, searchVars, summaryVars, mainVars>>

NextDiff ==
    \/ BuildDiffFirstRun
    \/ BuildDiff

SpecDiff == Init /\ [][NextDiff]_vars

(***************************************************************************)
(* Properties of build_diff                                                *)
(***************************************************************************)
\* build_diff has returned (it never returns an empty list)
Diffed == changes # <<>>

\* C10: with no previous state, build_diff returns exactly one entry, the
\* "first run" sentinel, whatever the current snapshot is.
C10_FirstRunSentinel ==
    (Diffed /\ previous = NoState) =>
        (Len(changes) = 1 /\ changes[1] = FIRST_RUN)

\* a first run whose snapshot has a cash fare, a points price and seats
C10_Witness ==
    /\ Diffed
    /\ previous = NoState
    /\ current.biz_cash_pp # None
    /\ current.biz_pts_pp_through # None
    /\ current.biz_seats_through = Num(2)
    /\ changes = <<FIRST_RUN>>

\* build_diff has been called with a stored previous snapshot
DiffedAgainstPrevious == current # None /\ previous # NoState

\* the tracked metrics whose values differ, in the order of MetricKeys
DifferingInOrder ==
    SelectSeq(MetricKeys, LAMBDA key : current[key] # previous[key])

C12_OrderedDirectedEntries ==
    (DiffedAgainstPrevious /\ Differing(current, previous) # {}) =>
        LET keys == DifferingInOrder
        IN  /\ Len(changes) = Len(keys)
            /\ \A i \in 1..Len(keys) :
                  LET key  == keys[i]
                      cur  == current[key]
                      prev == previous[key]
                      e    == changes[i]
                  IN  /\ e.label = labels[key]
                      /\ prev = None => e.kind = "now available"
                      /\ cur = None => e.kind = "no longer available"
                      /\ (cur # None /\ prev # None) =>
                            /\ e.kind = "changed"
                            /\ e.emoji \in {"green", "red"}
                            /\ (e.emoji = "green") <=>
                                  \/ (HasCash(key) \/ HasPts(key)) /\ cur.num < prev.num
                                  \/ HasSeats(key) /\ cur.num > prev.num

\* a points price that fell and a seat count that rose, in the order of the
\* metrics
C12_Witness ==
    /\ DiffedAgainstPrevious
    /\ previous.biz_pts_pp_through = Num(150000)
    /\ current.biz_pts_pp_through = Num(135000)
    /\ previous.biz_seats_through = Num(0)
    /\ current.biz_seats_through = Num(2)
    /\ Len(changes) = 2
    /\ changes[1].label = "Business points through (pp)"
    /\ changes[1].emoji = "green"
    /\ changes[2].label = "Business seats (through)"
    /\ changes[2].emoji = "green"

\* C13 (as claimed): every entry that shows a value renders it in the unit
\* of its metric: currency (AUD $) for cash metrics only, points for points
\* metrics, a seat count for seat metrics, in "now available" entries as well
\* as in changed-value entries.
C13_UnitOfMetric ==
    (DiffedAgainstPrevious /\ Differing(current, previous) # {}) =>
        \A i \in 1..Len(changes) :
            LET key == DifferingInOrder[i]
                e   == changes[i]
            IN  /\ e.kind = "now available" =>
                      (e.value.prefix = "AUD $") <=> HasCash(key)
                /\ e.kind = "changed" =>
                      /\ (e.val_str.prefix = "AUD $") <=> HasCash(key)
                      /\ (e.prev_str.prefix = "AUD $") <=> HasCash(key)
                      /\ HasCash(key) => e.unit = "AUD $"
                      /\ HasPts(key) => e.unit = "pts"
                      /\ HasSeats(key) => e.unit = "seats"

\* the function of the call applied to another response
SearchOf(data) ==
    IF search_call.fn = "search_cash_fares"
    THEN search_cash_fares(data, search_call.cabin)
    ELSE search_velocity_seats(data, search_call.cabin)

\* the exchanges of two positions of a list of n elements; every reordering
\* of a list is a sequence of such exchanges, and an exchange of a pool of
\* distinct keys is again a pool of distinct keys
Exchange(n, a, b) == [i \in 1..n |-> IF i = a THEN b ELSE IF i = b THEN a ELSE i]
Reorderings(n) == {Exchange(n, a, b) : a, b \in 1..n}
Permuted(s, f) == [i \in 1..Len(s) |-> s[f[i]]]

DistinctKeys(pool) ==
    \A i, j \in 1..Len(pool) : RankKey(pool[i]) = RankKey(pool[j]) => i = j

\* the first candidate, in input order, of a carrier group that has the
\* lowest key of the group
FirstCheapest(pool, qatar) ==
    LET group == {i \in 1..Len(pool) : pool[i].is_qatar = qatar}
        best  == {i \in group :
                     \A j \in group : RankKey(pool[i]) <= RankKey(pool[j])}
    IN  pool[CHOOSE i \in best : \A j \in best : i <= j]

\* C15: when the ranking keys of the pool are all distinct, every reordering
\* of the pool selects the same offers; when several offers of a carrier
\* group share the lowest key, the first of them in input order is selected.
C15_OrderInvariantStableTies ==
    Searched =>
        LET pool == Candidates
        IN  /\ DistinctKeys(pool) =>
                  \A f \in Reorderings(Len(offers)) :
                      SearchOf(Permuted(offers, f)) = results
            /\ \A i \in 1..Len(results) :
                  results[i] = FirstCheapest(pool, results[i].is_qatar)

\* two QR offers that differ share the lowest points price, and the one that
\* comes first in the response is the one selected
C15_Witness ==
    /\ Searched
    /\ search_call.fn = "search_velocity_seats"
    /\ Len(Candidates) = 3
    /\ Candidates[1].is_qatar
    /\ Candidates[3].is_qatar
    /\ Candidates[1].points_pp = Candidates[3].points_pp
    /\ Candidates[1] # Candidates[3]
    /\ ~Candidates[2].is_qatar
    /\ results[1] = Candidates[1]

(***************************************************************************)
(* Termination of booster_cost                                             *)
(***************************************************************************)
\* the statements of the function are executed one after the other: a loop
\* iteration or the return that is enabled is eventually taken
SpecBoosterFair ==
    /\ SpecBooster
    /\ WF_vars(BoosterIter)
    /\ WF_vars(BoosterReturn)

\* ceil(n / d) for n >= 0
CeilDiv(n, d) == (n + d - 1) \div d

Iterations == Len(purchases)

\* C16: for every non-negative points_needed the purchase loop terminates:
\* each iteration takes a chunk > 0 from remaining, which strictly decreases;
\* the number of iterations never exceeds ceil(points_needed / 250,000); and
\* a call that has entered the loop eventually returns.
C16_LoopTerminates ==
    /\ [][(points_needed >= 0 /\ Iterations' = Iterations + 1) =>
             /\ remaining' < remaining
             /\ remaining - remaining' > 0
             /\ remaining - remaining' = purchases'[Iterations'][1]]_vars
    /\ [](points_needed >= 0 => Iterations <= CeilDiv(points_needed, 250000))
    /\ ((booster_pc = "loop" /\ points_needed >= 0) ~> BoosterDone)

\* a call that needs three iterations, the most ceil(points_needed / 250,000)
\* allows for it, has returned
C16_Witness ==
    /\ BoosterDone
    /\ points_needed > 500000
    /\ Iterations = 3
    /\ Iterations = CeilDiv(points_needed, 250000)
    /\ remaining = 0

(***************************************************************************)
(* summarise_for_state                                                     *)
(***************************************************************************)
\* Python's round() of price_pp, an exact fraction here: to the nearest
\* integer, and to the even one of the two when the fraction is a half
round(x) ==
    LET q == x.numer \div x.denom
        r == x.numer % x.denom
    IN  IF 2 * r < x.denom THEN q
        ELSE IF 2 * r > x.denom THEN q + 1
        ELSE IF q % 2 = 0 THEN q ELSE q + 1

\* lines 517-518
cash_pp(list) == IF list # <<>> THEN Num(round(list[1].price_pp)) ELSE None

\* lines 520-521
pts_pp(list) == IF list # <<>> THEN Num(list[1].points_pp) ELSE None

\* lines 529-530
seats(list) == IF list # <<>> THEN Num(list[1].seats_avail) ELSE Num(0)

\* lines 512-531
summarise_for_state(cash_biz, pts_biz, cash_biz_mad_doh, pts_biz_mad_doh, cash_biz_doh_syd, pts_biz_doh_syd, cash_eco, pts_eco) ==
    [biz_cash_pp        |-> cash_pp(cash_biz),
     biz_pts_pp_through |-> pts_pp(pts_biz),
     biz_pts_pp_doh_syd |-> pts_pp(pts_biz_doh_syd),
     eco_cash_pp        |-> cash_pp(cash_eco),
     eco_pts_pp         |-> pts_pp(pts_eco),
     biz_seats_through  |-> seats(pts_biz),
     biz_seats_doh_syd  |-> seats(pts_biz_doh_syd)]

\* the responses the summarised selections are made from: a Qatar offer and
\* an offer of another carrier, in any number and order up to MaxPool
SummaryCashOffers ==
    {[segments |-> <<"QR">>, grandTotal |-> 5601],
     [segments |-> <<"EK">>, grandTotal |-> 6203]}

SummaryRewardItems ==
    {[Source |-> VELOCITY_PROGRAM, Available |-> TRUE, MileageCost |-> 150000,
      Carriers |-> <<"QR">>, RemainingSeats |-> 2],
     [Source |-> VELOCITY_PROGRAM, Available |-> TRUE, MileageCost |-> 135000,
      Carriers |-> <<"EK">>, RemainingSeats |-> 4]}

CashSelections(cabin) ==
    {search_cash_fares(data, cabin) : data \in Pools(SummaryCashOffers)}

RewardSelections(cabin) ==
    {search_velocity_seats(data, cabin) : data \in Pools(SummaryRewardItems)}

\* lines 832-843: the eight selections of a run
Selections ==
    [cash_biz         : CashSelections("BUSINESS"),
     pts_biz          : RewardSelections("business"),
     cash_biz_mad_doh : CashSelections("BUSINESS"),
     pts_biz_mad_doh  : RewardSelections("business"),
     cash_biz_doh_syd : CashSelections("BUSINESS"),
     pts_biz_doh_syd  : RewardSelections("business"),
     cash_eco         : CashSelections("ECONOMY"),
     pts_eco          : RewardSelections("economy")]

Summary(sel) ==
    summarise_for_state(sel.cash_biz, sel.pts_biz,
                        sel.cash_biz_mad_doh, sel.pts_biz_mad_doh,
                        sel.cash_biz_doh_syd, sel.pts_biz_doh_syd,
                        sel.cash_eco, sel.pts_eco)

\* summarise_for_state called with the selections of a run
SummariseForState ==
    /\ selected = None
    /\ \E sel \in Selections :
          /\ selected' = sel
          /\ current' = Summary(sel)
    /\ UNCHANGED <<previous, changes, boosterVars, labelVars, searchVars, mainVars>>

NextSummarise ==
    \/ SummariseForState

SpecSummarise == Init /\ [][NextSummarise]_vars

(***************************************************************************)
(* Properties of summarise_for_state                                       *)
(***************************************************************************)
Summarised == selected # None

HasPreferred(list) == \E i \in 1..Len(list) : list[i].is_qatar

\* the Qatar offer of a selection (a selection holds at most one)
Preferred(list) == list[CHOOSE i \in 1..Len(list) : list[i].is_qatar]

\* C14 (as claimed): the snapshot has one entry per tracked metric, and each
\* entry, the seat counts included, is the number taken from the Qatar offer
\* of the selection of the metric, or None when the selection has no Qatar
\* offer, which includes a selection that holds only an offer of another
\* carrier.
C14_PreferredOrAbsent ==
    Summarised =>
        /\ DOMAIN current = SetOf(MetricKeys)
        /\ \A key \in {"biz_cash_pp", "eco_cash_pp"} :
              LET list == IF key = "biz_cash_pp" THEN selected.cash_biz
                          ELSE selected.cash_eco
              IN  current[key] = IF HasPreferred(list)
                                 THEN Num(round(Preferred(list).price_pp))
                                 ELSE None
        /\ \A key \in {"biz_pts_pp_through", "biz_pts_pp_doh_syd", "eco_pts_pp"} :
              LET list == IF key = "biz_pts_pp_through" THEN selected.pts_biz
                          ELSE IF key = "biz_pts_pp_doh_syd"
                          THEN selected.pts_biz_doh_syd
                          ELSE selected.pts_eco
              IN  current[key] = IF HasPreferred(list)
                                 THEN Num(Preferred(list).points_pp)
                                 ELSE None
        /\ \A key \in {"biz_seats_through", "biz_seats_doh_syd"} :
              LET list == IF key = "biz_seats_through" THEN selected.pts_biz
                          ELSE selected.pts_biz_doh_syd
              IN  current[key] = IF HasPreferred(list)
                                 THEN Num(Preferred(list).seats_avail)
                                 ELSE None

(***************************************************************************)
(* main, run after run, and the state file of the repository               *)
(***************************************************************************)
\* line 127: json.dumps of the snapshot; None is written as null
dumps(data) ==
    [key \in DOMAIN data |->
        IF data[key] = None THEN [null |-> TRUE] ELSE [number |-> data[key].num]]

\* line 108: json.loads of the content of the file
loads(content) ==
    [key \in DOMAIN content |->
        IF "null" \in DOMAIN content[key] THEN None ELSE Num(content[key].number)]

\* mutant: the stored state is never returned
load_previous_stateNothing(content) == NoState
\* lines 102-108: status 404 (no file) gives {}, status 200 the decoded content
load_previous_state(content) ==
    IF content = None THEN NoState ELSE loads(content)

MaxRuns == 3

\* the selections of the modelled runs: the through business searches vary
MainSelections ==
    {sel \in Selections :
        \A name \in DOMAIN sel \ {"cash_biz", "pts_biz"} : sel[name] = <<>>}

\* line 827: the state file is fetched
MainLoad ==
    /\ main_pc = "load"
    /\ previous' = load_previous_state(store)
    /\ load_ok' = TRUE
    /\ main_pc' = "fetch"
    /\ UNCHANGED <<current, changes, selected, run, store, report, save_ok,
                   last_state, boosterVars, labelVars, searchVars>>

\* lines 92-94, 103-105, 109-110: no token, an error status or a content that
\* cannot be decoded: load_previous_state returns {}
MainLoadFails ==
    /\ main_pc = "load"
    /\ previous' = NoState
    /\ load_ok' = FALSE
    /\ main_pc' = "fetch"
    /\ UNCHANGED <<current, changes, selected, run, store, report, save_ok,
                   last_state, boosterVars, labelVars, searchVars>>

\* lines 832-843: the eight searches
MainFetch ==
    /\ main_pc = "fetch"
    /\ \E sel \in MainSelections : selected' = sel
    /\ main_pc' = "summarise"
    /\ UNCHANGED <<diffVars, run, store, report, load_ok, save_ok, last_state,
                   boosterVars, labelVars, searchVars>>

\* lines 846-851
MainSummarise ==
    /\ main_pc = "summarise"
    /\ current' = Summary(selected)
    /\ main_pc' = "diff"
    /\ UNCHANGED <<previous, changes, selected, run, store, report, load_ok,
                   save_ok, last_state, boosterVars, labelVars, searchVars>>

\* line 852
MainDiff ==
    /\ main_pc = "diff"
    /\ changes' = build_diff(current, previous)
    /\ main_pc' = "notify"
    /\ UNCHANGED <<current, previous, selected, run, store, report, load_ok,
                   save_ok, last_state, boosterVars, labelVars, searchVars>>

\* lines 855-865: the report, which holds the changes (line 652), is built
\* and handed to the notifier, and the notifier returns
MainNotify ==
    /\ main_pc = "notify"
    /\ report' = changes
    /\ main_pc' = "save"
    /\ UNCHANGED <<diffVars, selected, run, store, load_ok, save_ok, last_state,
                   boosterVars, labelVars, searchVars>>

\* lines 786, 800: the request of the notifier raises and the run ends
MainNotifyRaises ==
    /\ main_pc = "notify"
    /\ save_ok' = FALSE
    /\ main_pc' = "done"
    /\ UNCHANGED <<diffVars, selected, run, store, report, load_ok, last_state,
                   boosterVars, labelVars, searchVars>>

\* line 868, lines 125-135: the snapshot is written to the state file
MainSave ==
    /\ main_pc = "save"
    /\ store' = dumps(current)
    /\ save_ok' = TRUE
    /\ main_pc' = "done"
    /\ UNCHANGED <<diffVars, selected, run, report, load_ok, last_state,
                   boosterVars, labelVars, searchVars>>

\* lines 115-116, 135-136: no token, or the request is refused: nothing is
\* written
MainSaveFails ==
    /\ main_pc = "save"
    /\ save_ok' = FALSE
    /\ main_pc' = "done"
    /\ UNCHANGED <<diffVars, selected, run, store, report, load_ok, last_state,
                   boosterVars, labelVars, searchVars>>

\* the next scheduled run: a new process, whose locals are not set yet
MainNextRun ==
    /\ main_pc = "done"
    /\ run < MaxRuns
    /\ run' = run + 1
    /\ last_state' = current
    /\ current' = None
    /\ previous' = None
    /\ changes' = <<>>
    /\ selected' = None
    /\ report' = None
    /\ load_ok' = FALSE
    /\ main_pc' = "load"
    /\ UNCHANGED <<store, save_ok, boosterVars, labelVars, searchVars>>

NextMain ==
    \/ MainLoad
    \/ MainLoadFails
    \/ MainFetch
    \/ MainSummarise
    \/ MainDiff
    \/ MainNotify
    \/ MainNotifyRaises
    \/ MainSave
    \/ MainSaveFails
    \/ MainNextRun

SpecMain == Init /\ [][NextMain]_vars

(***************************************************************************)
(* Properties of the runs of main                                          *)
(***************************************************************************)
\* the diff of the run is computed and the run has not saved yet
MainDiffed == main_pc \in {"notify", "save"}

\* the store returned what the preceding run saved: the preceding run wrote
\* the state file and this run got its content
StoreFaithful == load_ok /\ save_ok

====
